---- MODULE Spec2Model ----
(***************************************************************************)
(* A model of the FNIRSI DPS-150 remote: the browser-side protocol class   *)
(* DPS150Protocol and telemetry interpreter (src/public/script.js) and the *)
(* serial <-> WebSocket relay (src/main.ts).                               *)
(*                                                                         *)
(* Bytes are naturals in 0..255.  A Uint8Array is a sequence of bytes      *)
(* (1-based here, 0-based in the source).  A float32 is represented by its *)
(* 32-bit pattern, so decoding stays a function of the four bytes read.    *)
(***************************************************************************)
EXTENDS Integers, Sequences, FiniteSets, TLC

\* ------------------------------------------------------------ constants

REG_VOLTAGE_SET == 193
REG_CURRENT_SET == 194
REG_INPUT_VOLTAGE == 192
REG_OUTPUT_TELEMETRY == 195
REG_TEMPERATURE == 196
REG_OUTPUT_ENABLE == 219
REG_PROTECTION_STATE == 220
REG_MODE == 221
REG_ALL == 255

HEADER_OUTPUT == 241
HEADER_INPUT == 240
CMD_GET == 161
CMD_SET == 177
CMD_ENABLE == 193
CMD_BAUD == 176

\* ------------------------------------------------------------ bounds

\* Longest payload handed to buildFrame.
MaxLen == 3

\* Byte values the inputs are drawn from: both ends of the range, the two
\* header bytes' neighbourhood and register ids, so that sums wrap mod 256.
ByteSample == {0, 1, 193, 219, 240, 255}

Commands == {CMD_GET, CMD_SET, CMD_ENABLE, CMD_BAUD}

\* Longest byte stream the device writes in SpecFramer, and its alphabet:
\* the sentinel and two other bytes.
MaxStream == 6

StreamBytes == {240, 1, 219}

\* Number of frames the device writes in SpecE2E and SpecFanout.
MaxFrames == 3

\* Device frames: an empty reply (well-formed), output-enable with a wrong
\* checksum (the spec's scenario), output on and off (well-formed), and a
\* well-formed mode frame whose checksum byte is 0xF0.
DeviceFrames ==
  { <<240, 161, 193, 0, 193>>,
    <<240, 177, 219, 1, 1, 220>>,
    <<240, 161, 219, 1, 1, 221>>,
    <<240, 161, 219, 1, 0, 220>>,
    <<240, 161, 221, 1, 18, 240>> }

FanoutFrames ==
  { <<240, 161, 193, 0, 193>>,
    <<240, 161, 219, 1, 1, 221>> }

\* The logical clients (one socket each).
Clients == {1, 2}

\* The fixed delay of processQueue, in ms.
DELAY_MS == 50

\* The clock advances in steps of TickMs up to MaxTime.
TickMs == 25

MaxTime == 150

\* Number of queueCommand calls in SpecSeq, and over both clients in SpecLink.
MaxCmds == 3

MaxLinkCmds == 2

\* How a client message reaches the relay's listener.
MessageKinds == {"arraybuffer", "blob"}

SeqsUpTo(S, n) == UNION {[1..k -> S] : k \in 0..n}

\* ------------------------------------------------------------ state

VARIABLES
  args,        \* the arguments of the pending codec call
  result,      \* what the codec call returned ("none" before the call)
  serialPort,  \* main.ts: the relay's port handle, "open" or "null"
  wire,        \* bytes the device has written that port.read() has not returned yet
  sent,        \* history: the frames the device has written, in order
  buffer,      \* main.ts startSerialReader: the accumulating buffer
  received,    \* history: every byte port.read() has returned, in order
  chunked,     \* history: the bytes received arrived in more than one chunk
  emitted,     \* history: the frames extracted so far (the "Serial <=" log)
  sockets,     \* main.ts: the fan-out set
  readyState,  \* main.ts: each server-side socket's readyState ("NONE": not upgraded yet)
  inbox,       \* per client, the frames ws.send() has handed to its connection
  deviceState, \* script.js setup(): per client, the refs of the snapshot
  now,         \* the clock, in ms
  wsReadyState,  \* script.js: per client, this.ws.readyState of its protocol instance
  commandQueue,  \* script.js: per client, this.commandQueue
  isProcessing,  \* script.js: per client, this.isProcessing
  timer,       \* per client, when the drain's pending setTimeout is due (-1: none)
  drainOwner,  \* per client, the queueCommand call awaiting processQueue (0: none)
  calls,       \* history: the queueCommand calls in call order, with their promise's state
  txLog,       \* history: per client, the frames passed to ws.send, with the time
  skipped,     \* history: the calls whose frame send() found the socket not OPEN for
  uplink,      \* per client, the messages sent and not yet received by the relay
  converting,  \* main.ts 'message' listener: Blob messages awaiting arrayBuffer()
  serialLog,   \* history: the serialPort.write calls, with the time
  page         \* script.js setup(): socket, protocol, wsConnected, telemetryInterval and the
               \* page's pending listeners and timers

codecVars == <<args, result>>
linkVars == <<serialPort, wire, sent, buffer, received, chunked, emitted>>
socketVars == <<sockets, readyState>>
seqVars == <<wsReadyState, commandQueue, isProcessing, timer, drainOwner, calls,
             txLog, skipped>>
upVars == <<uplink, converting, serialLog>>
vars == <<args, result, serialPort, wire, sent, buffer, received, chunked, emitted,
          sockets, readyState, inbox, deviceState, now, wsReadyState, commandQueue,
          isProcessing, timer, drainOwner, calls, txLog, skipped, uplink,
          converting, serialLog, page>>

\* ------------------------------------------------------------ Frame codec

\* Array.from(data).reduce((a, b) => a + b, 0)
RECURSIVE SumBytes(_)
SumBytes(s) == IF s = <<>> THEN 0 ELSE Head(s) + SumBytes(Tail(s))

\* A store into a Uint8Array element keeps the low eight bits.
U8(x) == x % 256

\* The mutant of buildFrame: the checksum leaves the length byte out.
buildFrameChkNoLen(cmd, reg, data) ==
  <<HEADER_OUTPUT, U8(cmd), U8(reg), U8(Len(data))>> \o data
    \o <<U8((reg + SumBytes(data)) % 256)>>

\* The mutant of buildFrame: the checksum loop starts at the second payload
\* byte.
buildFrameChkSkipsFirst(cmd, reg, data) ==
  LET len == Len(data)
      rest == IF data = <<>> THEN <<>> ELSE Tail(data)
      chk == (reg + len + SumBytes(rest)) % 256
  IN  <<HEADER_OUTPUT, U8(cmd), U8(reg), U8(len)>> \o data \o <<U8(chk)>>

buildFrame(cmd, reg, data) ==
  LET len == Len(data)
      chk == (reg + len + SumBytes(data)) % 256
  IN  <<HEADER_OUTPUT, U8(cmd), U8(reg), U8(len)>> \o data \o <<U8(chk)>>

\* The frames the callers queue: requestOutputTelemetry() and
\* setOutputState(true).
ClientFrames ==
  { buildFrame(CMD_GET, REG_OUTPUT_TELEMETRY, <<>>),
    buildFrame(CMD_SET, REG_OUTPUT_ENABLE, <<1>>) }

\* The frame both clients queue in SpecLink: requestOutputTelemetry().
LinkFrames == { buildFrame(CMD_GET, REG_OUTPUT_TELEMETRY, <<>>) }

\* A float32 is represented by its bit pattern, read as a two's-complement
\* 32-bit integer: 12.0 is 0x41400000 = 1094713344, and a pattern whose top
\* byte is 0x80 or more (a negative float) is a negative integer.
Float32Of(b0, b1, b2, b3) ==
  b0 + 256 * b1 + 65536 * b2 + 16777216 * (IF b3 >= 128 THEN b3 - 256 ELSE b3)

\* The mutant of decodeFloat32: the view is taken at the start of the array,
\* offset forgotten.
decodeFloat32NoOffset(bytes, offset) ==
  IF Len(bytes) < offset + 4 THEN 0
  ELSE Float32Of(bytes[1], bytes[2], bytes[3], bytes[4])

\* decodeFloat32(bytes, offset): the sentinel 0 when fewer than four bytes
\* remain, else the little-endian float32 at bytes offset..offset+3
\* (offset is 0-based, as in the source).
decodeFloat32(bytes, offset) ==
  IF Len(bytes) < offset + 4 THEN 0
  ELSE Float32Of(bytes[offset + 1], bytes[offset + 2],
                 bytes[offset + 3], bytes[offset + 4])

\* The mutant of encodeFloat32: setFloat32 without the little-endian flag.
encodeFloat32BigEndian(value) ==
  LET u == IF value < 0 THEN value + 2147483647 + 1 ELSE value
      b3 == (u \div 16777216) + (IF value < 0 THEN 128 ELSE 0)
  IN  <<b3, (u \div 65536) % 256, (u \div 256) % 256, u % 256>>

\* encodeFloat32(value): the four bytes of the float32, little-endian.
encodeFloat32(value) ==
  LET u == IF value < 0 THEN value + 2147483647 + 1 ELSE value
      b3 == (u \div 16777216) + (IF value < 0 THEN 128 ELSE 0)
  IN  <<u % 256, (u \div 256) % 256, (u \div 65536) % 256, b3>>

initSession == buildFrame(CMD_ENABLE, 0, <<1>>)

setVoltage(volts) == buildFrame(CMD_SET, REG_VOLTAGE_SET, encodeFloat32(volts))

setCurrent(amps) == buildFrame(CMD_SET, REG_CURRENT_SET, encodeFloat32(amps))

setOutputState(enabled) ==
  buildFrame(CMD_SET, REG_OUTPUT_ENABLE, <<IF enabled THEN 1 ELSE 0>>)

requestAllState == buildFrame(CMD_GET, REG_ALL, <<0>>)

requestInputVoltage == buildFrame(CMD_GET, REG_INPUT_VOLTAGE, <<>>)

requestOutputTelemetry == buildFrame(CMD_GET, REG_OUTPUT_TELEMETRY, <<>>)

requestTemperature == buildFrame(CMD_GET, REG_TEMPERATURE, <<>>)

requestVoltageSetpoint == buildFrame(CMD_GET, REG_VOLTAGE_SET, <<>>)

requestCurrentSetpoint == buildFrame(CMD_GET, REG_CURRENT_SET, <<>>)

requestOutputState == buildFrame(CMD_GET, REG_OUTPUT_ENABLE, <<>>)

\* ------------------------------------------------------------ Stream framer

Min(S) == CHOOSE x \in S : \A y \in S : x <= y

\* buffer.indexOf(b, from), with 1-based positions; 0 stands for -1.
IndexOf(s, b, from) ==
  LET hits == {i \in from..Len(s) : s[i] = b}
  IN  IF hits = {} THEN 0 ELSE Min(hits)

\* The mutant of ExtractFrames: the slice runs up to and including the
\* closing sentinel.
RECURSIVE ExtractFramesInclusive(_, _, _)
ExtractFramesInclusive(buf, start, acc) ==
  IF start = 0 THEN [frames |-> acc, start |-> 0]
  ELSE LET end == IndexOf(buf, HEADER_INPUT, start + 1) IN
       IF end = 0 THEN [frames |-> acc, start |-> start]
       ELSE ExtractFramesInclusive(buf, end, Append(acc, SubSeq(buf, start, end)))

\* The inner loop of startSerialReader: from a sentinel at `start`, cut one
\* frame per following sentinel; returns the frames and the final `start`.
RECURSIVE ExtractFrames(_, _, _)
ExtractFrames(buf, start, acc) ==
  IF start = 0 THEN [frames |-> acc, start |-> 0]
  ELSE LET end == IndexOf(buf, HEADER_INPUT, start + 1) IN
       IF end = 0 THEN [frames |-> acc, start |-> start]
       ELSE ExtractFrames(buf, end, Append(acc, SubSeq(buf, start, end - 1)))

\* The mutant of ProcessChunk: the bytes after the last sentinel are not kept.
ProcessChunkDropsTail(buf0, chunk) ==
  LET buf == buf0 \o chunk
      r == ExtractFrames(buf, IndexOf(buf, HEADER_INPUT, 1), <<>>)
  IN  [frames |-> r.frames, buffer |-> <<>>]

\* The mutant of ProcessChunk: the buffer is kept from the first sentinel of
\* the pass, not from the last one reached.
ProcessChunkKeepsAll(buf0, chunk) ==
  LET buf == buf0 \o chunk
      first == IndexOf(buf, HEADER_INPUT, 1)
      r == ExtractFrames(buf, first, <<>>)
  IN  [frames |-> r.frames,
       buffer |-> IF r.start # 0 THEN SubSeq(buf, first, Len(buf)) ELSE <<>>]

\* The mutant of ProcessChunk: without a sentinel the accumulated bytes are
\* kept instead of dropped.
ProcessChunkKeepsNoise(buf0, chunk) ==
  LET buf == buf0 \o chunk
      r == ExtractFrames(buf, IndexOf(buf, HEADER_INPUT, 1), <<>>)
  IN  [frames |-> r.frames,
       buffer |-> IF r.start # 0 THEN SubSeq(buf, r.start, Len(buf)) ELSE buf]

\* The mutant of ProcessChunk: the buffer is kept from the byte after the
\* last sentinel.
ProcessChunkSkipsSentinel(buf0, chunk) ==
  LET buf == buf0 \o chunk
      r == ExtractFrames(buf, IndexOf(buf, HEADER_INPUT, 1), <<>>)
  IN  [frames |-> r.frames,
       buffer |-> IF r.start # 0 THEN SubSeq(buf, r.start + 1, Len(buf)) ELSE <<>>]

\* The mutant of ProcessChunk: the chunk replaces the buffer instead of being
\* appended to it.
ProcessChunkForgetsBuffer(buf0, chunk) ==
  LET buf == chunk
      r == ExtractFrames(buf, IndexOf(buf, HEADER_INPUT, 1), <<>>)
  IN  [frames |-> r.frames,
       buffer |-> IF r.start # 0 THEN SubSeq(buf, r.start, Len(buf)) ELSE <<>>]

\* The mutant of ProcessChunk: the bytes from the last sentinel on are sent
\* as a frame at the end of the pass.
ProcessChunkFlushesTail(buf0, chunk) ==
  LET buf == buf0 \o chunk
      r == ExtractFrames(buf, IndexOf(buf, HEADER_INPUT, 1), <<>>)
  IN  [frames |-> IF r.start # 0
                  THEN Append(r.frames, SubSeq(buf, r.start, Len(buf)))
                  ELSE r.frames,
       buffer |-> <<>>]

\* One pass of the read loop over a non-empty chunk: append, extract, keep
\* the bytes from the last sentinel on (nothing when there is no sentinel).
ProcessChunk(buf0, chunk) ==
  LET buf == buf0 \o chunk
      r == ExtractFrames(buf, IndexOf(buf, HEADER_INPUT, 1), <<>>)
  IN  [frames |-> r.frames,
       buffer |-> IF r.start # 0 THEN SubSeq(buf, r.start, Len(buf)) ELSE <<>>]

\* ------------------------------------------------------------ Telemetry interpreter

\* The refs created by setup(); 12.0 and 0.5 as float32 bit patterns.
DefaultState ==
  [outputEnabled |-> FALSE,
   voltageSetpoint |-> 1094713344,
   currentLimit |-> 1056964608,
   actualVoltage |-> 0,
   actualCurrent |-> 0,
   outputPower |-> 0,
   internalTemperature |-> 0,
   inputVoltage |-> 0,
   voltageMode |-> "CC",
   status |-> "OK"]

\* states[code] || "OK" with states = ["", "OVP", "OCP", "OPP", "OTP", "LVP"]
ProtectionLabel(code) ==
  CASE code = 1 -> "OVP"
    [] code = 2 -> "OCP"
    [] code = 3 -> "OPP"
    [] code = 4 -> "OTP"
    [] code = 5 -> "LVP"
    [] OTHER -> "OK"

\* b === 0 ? "CC" : "CV"
ModeLabel(b) == IF b = 0 THEN "CC" ELSE "CV"

\* bytes.slice(from, to), 0-based and clamped to the array, as in the source.
Slice(bytes, from, to) ==
  LET hi == IF to < Len(bytes) THEN to ELSE Len(bytes)
  IN  IF from >= hi THEN <<>> ELSE SubSeq(bytes, from + 1, hi)

\* The mutant of parseFullState: the length test stops at the last byte read
\* (offset 109) instead of the full 139-byte dump.
parseFullStateShortGuard(st, data) ==
  IF Len(data) < 110 THEN st
  ELSE [st EXCEPT
          !.inputVoltage = decodeFloat32(data, 0),
          !.voltageSetpoint = decodeFloat32(data, 4),
          !.currentLimit = decodeFloat32(data, 8),
          !.actualVoltage = decodeFloat32(data, 12),
          !.actualCurrent = decodeFloat32(data, 16),
          !.outputPower = decodeFloat32(data, 20),
          !.internalTemperature = decodeFloat32(data, 24),
          !.outputEnabled = (data[108] = 1),
          !.status = ProtectionLabel(data[109]),
          !.voltageMode = ModeLabel(data[110])]

\* The mutant of parseFullState: the output-enable flag is read one byte
\* early (offset 106).
parseFullStateFlagEarly(st, data) ==
  IF Len(data) < 139 THEN st
  ELSE [st EXCEPT
          !.inputVoltage = decodeFloat32(data, 0),
          !.voltageSetpoint = decodeFloat32(data, 4),
          !.currentLimit = decodeFloat32(data, 8),
          !.actualVoltage = decodeFloat32(data, 12),
          !.actualCurrent = decodeFloat32(data, 16),
          !.outputPower = decodeFloat32(data, 20),
          !.internalTemperature = decodeFloat32(data, 24),
          !.outputEnabled = (data[107] = 1),
          !.status = ProtectionLabel(data[109]),
          !.voltageMode = ModeLabel(data[110])]

\* parseFullState(data), from the snapshot st: nothing when data is shorter
\* than 139 bytes, else the ten refs are assigned (data[k] of the source is
\* data[k + 1] here).
parseFullState(st, data) ==
  IF Len(data) < 139 THEN st
  ELSE [st EXCEPT
          !.inputVoltage = decodeFloat32(data, 0),
          !.voltageSetpoint = decodeFloat32(data, 4),
          !.currentLimit = decodeFloat32(data, 8),
          !.actualVoltage = decodeFloat32(data, 12),
          !.actualCurrent = decodeFloat32(data, 16),
          !.outputPower = decodeFloat32(data, 20),
          !.internalTemperature = decodeFloat32(data, 24),
          !.outputEnabled = (data[108] = 1),
          !.status = ProtectionLabel(data[109]),
          !.voltageMode = ModeLabel(data[110])]

\* The mutant of handleProtocolMessage: the REG_OUTPUT_ENABLE case has lost
\* its `break` and runs on into the REG_PROTECTION_STATE case.
handleProtocolMessageFallsThrough(st, bytes) ==
  IF Len(bytes) < 5 THEN st
  ELSE
    LET header == bytes[1]
        reg == bytes[3]
        len == bytes[4]
        data == Slice(bytes, 4, 4 + len)
    IN
    IF header # HEADER_INPUT THEN st
    ELSE IF len = 0 THEN st
    ELSE
      CASE reg = REG_VOLTAGE_SET ->
             IF len >= 4 THEN [st EXCEPT !.voltageSetpoint = decodeFloat32(data, 0)]
             ELSE st
        [] reg = REG_CURRENT_SET ->
             IF len >= 4 THEN [st EXCEPT !.currentLimit = decodeFloat32(data, 0)]
             ELSE st
        [] reg = REG_INPUT_VOLTAGE ->
             IF len >= 4 THEN [st EXCEPT !.inputVoltage = decodeFloat32(data, 0)]
             ELSE st
        [] reg = REG_OUTPUT_TELEMETRY ->
             IF len >= 12
             THEN [st EXCEPT !.actualVoltage = decodeFloat32(data, 0),
                             !.actualCurrent = decodeFloat32(data, 4),
                             !.outputPower = decodeFloat32(data, 8)]
             ELSE st
        [] reg = REG_TEMPERATURE ->
             IF len >= 4 THEN [st EXCEPT !.internalTemperature = decodeFloat32(data, 0)]
             ELSE st
        [] reg = REG_OUTPUT_ENABLE ->
             IF len >= 1
             THEN [st EXCEPT !.outputEnabled = (data[1] = 1),
                             !.status = ProtectionLabel(data[1])]
             ELSE st
        [] reg = REG_PROTECTION_STATE ->
             IF len >= 1 THEN [st EXCEPT !.status = ProtectionLabel(data[1])] ELSE st
        [] reg = REG_MODE ->
             IF len >= 1 THEN [st EXCEPT !.voltageMode = ModeLabel(data[1])] ELSE st
        [] reg = REG_ALL -> parseFullState(st, data)
        [] OTHER -> st

\* The snapshot after handleProtocolMessage(bytes), from the snapshot st.
handleProtocolMessage(st, bytes) ==
  IF Len(bytes) < 5 THEN st
  ELSE
    LET header == bytes[1]
        reg == bytes[3]
        len == bytes[4]
        data == Slice(bytes, 4, 4 + len)
    IN
    IF header # HEADER_INPUT THEN st
    ELSE IF len = 0 THEN st
    ELSE
      CASE reg = REG_VOLTAGE_SET ->
             IF len >= 4 THEN [st EXCEPT !.voltageSetpoint = decodeFloat32(data, 0)]
             ELSE st
        [] reg = REG_CURRENT_SET ->
             IF len >= 4 THEN [st EXCEPT !.currentLimit = decodeFloat32(data, 0)]
             ELSE st
        [] reg = REG_INPUT_VOLTAGE ->
             IF len >= 4 THEN [st EXCEPT !.inputVoltage = decodeFloat32(data, 0)]
             ELSE st
        [] reg = REG_OUTPUT_TELEMETRY ->
             IF len >= 12
             THEN [st EXCEPT !.actualVoltage = decodeFloat32(data, 0),
                             !.actualCurrent = decodeFloat32(data, 4),
                             !.outputPower = decodeFloat32(data, 8)]
             ELSE st
        [] reg = REG_TEMPERATURE ->
             IF len >= 4 THEN [st EXCEPT !.internalTemperature = decodeFloat32(data, 0)]
             ELSE st
        [] reg = REG_OUTPUT_ENABLE ->
             IF len >= 1 THEN [st EXCEPT !.outputEnabled = (data[1] = 1)] ELSE st
        [] reg = REG_PROTECTION_STATE ->
             IF len >= 1 THEN [st EXCEPT !.status = ProtectionLabel(data[1])] ELSE st
        [] reg = REG_MODE ->
             IF len >= 1 THEN [st EXCEPT !.voltageMode = ModeLabel(data[1])] ELSE st
        [] reg = REG_ALL -> parseFullState(st, data)
        [] OTHER -> st

\* ------------------------------------------------------------ Relay

\* The mutant of Broadcast: every member of the set is sent to, OPEN or not.
BroadcastToAll(inb, frames) ==
  [c \in Clients |-> IF c \in sockets THEN inb[c] \o frames ELSE inb[c]]

\* for (const ws of sockets) if (ws.readyState === WebSocket.OPEN) ws.send(frame),
\* for each extracted frame in turn; readyState does not change in between.
Broadcast(inb, frames) ==
  [c \in Clients |->
     IF c \in sockets /\ readyState[c] = "OPEN" THEN inb[c] \o frames ELSE inb[c]]

\* The device writes one byte to the link.
DeviceWriteByte(b) ==
  /\ serialPort = "open"
  /\ Len(received) + Len(wire) < MaxStream
  /\ wire' = Append(wire, b)
  /\ UNCHANGED <<serialPort, sent, buffer, received, chunked, emitted>>
  /\ UNCHANGED <<codecVars, socketVars, inbox, deviceState, now, seqVars, upVars>>
  /\ UNCHANGED page

\* The device writes one whole frame to the link.
DeviceWriteFrame(f) ==
  /\ serialPort = "open"
  /\ Len(sent) < MaxFrames
  /\ wire' = wire \o f
  /\ sent' = Append(sent, f)
  /\ UNCHANGED <<serialPort, buffer, received, chunked, emitted>>
  /\ UNCHANGED <<codecVars, socketVars, inbox, deviceState, now, seqVars, upVars>>
  /\ UNCHANGED page

\* The mutant of ReadChunk: the loop goes on reading after the handle was
\* cleared.
ReadChunkAfterEnd(n) ==
  /\ n \in 0..Len(wire)
  /\ LET chunk == SubSeq(wire, 1, n)
         r == ProcessChunk(buffer, chunk)
     IN  IF n = 0
         THEN UNCHANGED <<wire, received, chunked, buffer, emitted, inbox>>
         ELSE /\ wire' = SubSeq(wire, n + 1, Len(wire))
              /\ received' = received \o chunk
              /\ chunked' = (chunked \/ received # <<>>)
              /\ buffer' = r.buffer
              /\ emitted' = emitted \o r.frames
              /\ inbox' = Broadcast(inbox, r.frames)
  /\ UNCHANGED <<serialPort, sent>>
  /\ UNCHANGED <<codecVars, socketVars, deviceState, now, seqVars, upVars>>
  /\ UNCHANGED page

\* One iteration of the read loop: port.read() returns the next n bytes
\* (n = 0: an empty chunk, skipped by `continue`).
ReadChunk(n) ==
  /\ serialPort = "open"
  /\ n \in 0..Len(wire)
  /\ LET chunk == SubSeq(wire, 1, n)
         r == ProcessChunk(buffer, chunk)
     IN  IF n = 0
         THEN UNCHANGED <<wire, received, chunked, buffer, emitted, inbox>>
         ELSE /\ wire' = SubSeq(wire, n + 1, Len(wire))
              /\ received' = received \o chunk
              /\ chunked' = (chunked \/ received # <<>>)
              /\ buffer' = r.buffer
              /\ emitted' = emitted \o r.frames
              /\ inbox' = Broadcast(inbox, r.frames)
  /\ UNCHANGED <<serialPort, sent>>
  /\ UNCHANGED <<codecVars, socketVars, deviceState, now, seqVars, upVars>>
  /\ UNCHANGED page

\* port.read() returns null or throws: the loop ends and `finally` clears the
\* handle.  The loop's local buffer is unreachable from then on.
ReadEnds ==
  /\ serialPort = "open"
  /\ serialPort' = "null"
  /\ UNCHANGED <<wire, sent, buffer, received, chunked, emitted>>
  /\ UNCHANGED <<codecVars, socketVars, inbox, deviceState, now, seqVars, upVars>>
  /\ UNCHANGED page

\* The mutant of OnClose: the listener only logs.
OnCloseKeeps(set, c) == set

\* socket 'close' listener: sockets.delete(socket).
OnClose(set, c) == set \ {c}

\* socket 'error' listener: console.error only.
OnError(set, c) == set

\* GET /ws: Deno.upgradeWebSocket(req); sockets.add(socket).  The socket is a
\* fresh object, still CONNECTING.
Upgrade(c) ==
  /\ readyState[c] = "NONE"
  /\ sockets' = sockets \cup {c}
  /\ readyState' = [readyState EXCEPT ![c] = "CONNECTING"]
  /\ UNCHANGED <<codecVars, linkVars, inbox, deviceState, now, seqVars, upVars>>
  /\ UNCHANGED page

\* The handshake completes: 'open' listener (a log line).
SocketOpen(c) ==
  /\ readyState[c] = "CONNECTING"
  /\ readyState' = [readyState EXCEPT ![c] = "OPEN"]
  /\ UNCHANGED <<codecVars, linkVars, sockets, inbox, deviceState, now, seqVars, upVars>>
  /\ UNCHANGED page

\* A closing handshake starts (either side called close()).
SocketClosing(c) ==
  /\ readyState[c] = "OPEN"
  /\ readyState' = [readyState EXCEPT ![c] = "CLOSING"]
  /\ UNCHANGED <<codecVars, linkVars, sockets, inbox, deviceState, now, seqVars, upVars>>
  /\ UNCHANGED page

\* The connection ends (handshake done, or the peer vanished): 'close' event.
SocketClose(c) ==
  /\ readyState[c] \in {"CONNECTING", "OPEN", "CLOSING"}
  /\ readyState' = [readyState EXCEPT ![c] = "CLOSED"]
  /\ sockets' = OnClose(sockets, c)
  /\ UNCHANGED <<codecVars, linkVars, inbox, deviceState, now, seqVars, upVars>>
  /\ UNCHANGED page

\* The connection fails: the runtime fires 'error' and then 'close' on the
\* socket, in one task.
SocketError(c) ==
  /\ readyState[c] \in {"CONNECTING", "OPEN", "CLOSING"}
  /\ readyState' = [readyState EXCEPT ![c] = "CLOSED"]
  /\ sockets' = OnClose(OnError(sockets, c), c)
  /\ UNCHANGED <<codecVars, linkVars, inbox, deviceState, now, seqVars, upVars>>
  /\ UNCHANGED page

\* Client side, socket 'message' listener: the next frame of the connection
\* arrives as an ArrayBuffer and is handed to handleProtocolMessage.
ClientOnMessage(c) ==
  /\ inbox[c] # <<>>
  /\ deviceState' =
       [deviceState EXCEPT ![c] = handleProtocolMessage(@, Head(inbox[c]))]
  /\ inbox' = [inbox EXCEPT ![c] = Tail(@)]
  /\ UNCHANGED <<codecVars, linkVars, socketVars, now, seqVars, upVars>>
  /\ UNCHANGED page

\* ------------------------------------------------------------ Command sequencer

\* The mutant of WakeTime: no delay after a send.
WakeTimeNoDelay(t) == t

\* setTimeout(r, 50) called at time t: the callback is not run before t + 50.
WakeTime(t) == t + DELAY_MS

\* send(frame): ws.send when the socket is OPEN, nothing otherwise.
send(c, item) ==
  IF wsReadyState[c] = "OPEN"
  THEN /\ txLog' = [txLog EXCEPT ![c] = Append(@, [id |-> item.id, frame |-> item.frame, t |-> now])]
       /\ uplink' = [uplink EXCEPT ![c] = Append(@, item)]
       /\ UNCHANGED skipped
  ELSE /\ skipped' = skipped \cup {item.id}
       /\ UNCHANGED <<txLog, uplink>>

\* queueCommand(frame) on client c's protocol instance, up to its first
\* suspension: push; when no drain is active, processQueue() starts, sends
\* the head and suspends in its timeout, and the call's promise stays pending
\* until that drain returns; otherwise the call returns at once.
queueCommand(c, f) ==
  LET id == Len(calls) + 1
      q == Append(commandQueue[c], [id |-> id, frame |-> f])
  IN  IF ~isProcessing[c]
      THEN /\ isProcessing' = [isProcessing EXCEPT ![c] = TRUE]
           /\ commandQueue' = [commandQueue EXCEPT ![c] = Tail(q)]
           /\ send(c, Head(q))
           /\ timer' = [timer EXCEPT ![c] = WakeTime(now)]
           /\ drainOwner' = [drainOwner EXCEPT ![c] = id]
           /\ calls' = Append(calls, [client |-> c, status |-> "pending", starter |-> TRUE])
      ELSE /\ commandQueue' = [commandQueue EXCEPT ![c] = q]
           /\ calls' = Append(calls, [client |-> c, status |-> "resolved", starter |-> FALSE])
           /\ UNCHANGED <<isProcessing, timer, drainOwner, txLog, uplink, skipped>>

\* A caller other than the page's handlers below queues frame f.
QueueCommand(c, f) ==
  /\ queueCommand(c, f)
  /\ UNCHANGED <<codecVars, linkVars, socketVars, inbox, deviceState, now,
                 wsReadyState, converting, serialLog>>
  /\ UNCHANGED page

\* The mutant of TimerFire: isProcessing is cleared as soon as the queue runs
\* empty, before the last delay has elapsed.
TimerFireClearsEarly(c) ==
  /\ timer[c] # -1
  /\ now >= timer[c]
  /\ IF commandQueue[c] # <<>>
     THEN /\ commandQueue' = [commandQueue EXCEPT ![c] = Tail(@)]
          /\ send(c, Head(commandQueue[c]))
          /\ timer' = [timer EXCEPT ![c] = WakeTime(now)]
          /\ isProcessing' = [isProcessing EXCEPT ![c] = (Tail(commandQueue[c]) # <<>>)]
          /\ UNCHANGED <<drainOwner, calls>>
     ELSE /\ isProcessing' = [isProcessing EXCEPT ![c] = FALSE]
          /\ timer' = [timer EXCEPT ![c] = -1]
          /\ calls' = [calls EXCEPT ![drainOwner[c]].status = "resolved"]
          /\ drainOwner' = [drainOwner EXCEPT ![c] = 0]
          /\ UNCHANGED <<commandQueue, txLog, uplink, skipped>>
  /\ UNCHANGED <<codecVars, linkVars, socketVars, inbox, deviceState, now,
                 wsReadyState, converting, serialLog>>
  /\ UNCHANGED page

\* The mutant of TimerFire: the drain returns without clearing isProcessing.
TimerFireLeavesFlag(c) ==
  /\ timer[c] # -1
  /\ now >= timer[c]
  /\ IF commandQueue[c] # <<>>
     THEN /\ commandQueue' = [commandQueue EXCEPT ![c] = Tail(@)]
          /\ send(c, Head(commandQueue[c]))
          /\ timer' = [timer EXCEPT ![c] = WakeTime(now)]
          /\ UNCHANGED <<isProcessing, drainOwner, calls>>
     ELSE /\ UNCHANGED isProcessing
          /\ timer' = [timer EXCEPT ![c] = -1]
          /\ calls' = [calls EXCEPT ![drainOwner[c]].status = "resolved"]
          /\ drainOwner' = [drainOwner EXCEPT ![c] = 0]
          /\ UNCHANGED <<commandQueue, txLog, uplink, skipped>>
  /\ UNCHANGED <<codecVars, linkVars, socketVars, inbox, deviceState, now,
                 wsReadyState, converting, serialLog>>
  /\ UNCHANGED page

\* The drain's timeout fires and processQueue resumes: the next command is
\* shifted, sent and followed by a new timeout; with the queue empty the
\* drain returns, which resolves the promise of the call that started it.
TimerFire(c) ==
  /\ timer[c] # -1
  /\ now >= timer[c]
  /\ IF commandQueue[c] # <<>>
     THEN /\ commandQueue' = [commandQueue EXCEPT ![c] = Tail(@)]
          /\ send(c, Head(commandQueue[c]))
          /\ timer' = [timer EXCEPT ![c] = WakeTime(now)]
          /\ UNCHANGED <<isProcessing, drainOwner, calls>>
     ELSE /\ isProcessing' = [isProcessing EXCEPT ![c] = FALSE]
          /\ timer' = [timer EXCEPT ![c] = -1]
          /\ calls' = [calls EXCEPT ![drainOwner[c]].status = "resolved"]
          /\ drainOwner' = [drainOwner EXCEPT ![c] = 0]
          /\ UNCHANGED <<commandQueue, txLog, uplink, skipped>>
  /\ UNCHANGED <<codecVars, linkVars, socketVars, inbox, deviceState, now,
                 wsReadyState, converting, serialLog>>
  /\ UNCHANGED page

\* Time passes.
Tick ==
  /\ now + TickMs <= MaxTime
  /\ now' = now + TickMs
  /\ UNCHANGED <<codecVars, linkVars, socketVars, inbox, deviceState, seqVars, upVars>>
  /\ UNCHANGED page

\* Time passes while a timeout is pending: the clock is not capped before
\* the timeout is due.
TickPending ==
  /\ \E c \in Clients : timer[c] # -1 /\ now < timer[c]
  /\ now' = now + TickMs
  /\ UNCHANGED <<codecVars, linkVars, socketVars, inbox, deviceState, seqVars, upVars>>
  /\ UNCHANGED page

\* Client c's connection ends: its socket is no longer OPEN.
WsClose(c) ==
  /\ wsReadyState[c] = "OPEN"
  /\ wsReadyState' = [wsReadyState EXCEPT ![c] = "CLOSED"]
  /\ UNCHANGED <<codecVars, linkVars, socketVars, inbox, deviceState, now,
                 commandQueue, isProcessing, timer, drainOwner, calls, txLog,
                 skipped, upVars>>
  /\ UNCHANGED page

\* The mutant of SerialWrite: the write is issued without looking at the port.
SerialWriteUnguarded(log, m) ==
  Append(log, [id |-> m.id, frame |-> m.frame, t |-> now])

\* if (serialPort?.isPortOpen) serialPort.write(bytes)
SerialWrite(log, m) ==
  IF serialPort = "open"
  THEN Append(log, [id |-> m.id, frame |-> m.frame, t |-> now])
  ELSE log

\* Relay, socket 'message' listener, for the next message of client c: an
\* ArrayBuffer is written at once, a Blob after its arrayBuffer() resolves.
RelayOnMessage(c, kind) ==
  /\ uplink[c] # <<>>
  /\ uplink' = [uplink EXCEPT ![c] = Tail(@)]
  /\ IF kind = "blob"
     THEN /\ converting' = converting \cup {Head(uplink[c])}
          /\ UNCHANGED serialLog
     ELSE /\ serialLog' = SerialWrite(serialLog, Head(uplink[c]))
          /\ UNCHANGED converting
  /\ UNCHANGED <<codecVars, linkVars, socketVars, inbox, deviceState, now, seqVars>>
  /\ UNCHANGED page

\* data.arrayBuffer() resolves and the listener resumes.
BlobReady(m) ==
  /\ m \in converting
  /\ converting' = converting \ {m}
  /\ serialLog' = SerialWrite(serialLog, m)
  /\ UNCHANGED uplink
  /\ UNCHANGED <<codecVars, linkVars, socketVars, inbox, deviceState, now, seqVars>>
  /\ UNCHANGED page

\* The page after setup() and onMounted: connect() has created the first
\* socket, no listener has run.  socket and protocol are the number of the
\* connection socket.value and protocol.value belong to (0: null); clicked
\* records that the user has clicked.
PageMounted ==
  [socket |-> 1,
   protocol |-> 0,
   wsConnected |-> FALSE,
   telemetryInterval |-> 0,
   intervalActive |-> FALSE,
   reconnect |-> FALSE,
   clicked |-> FALSE,
   opener |-> [k \in Clients |-> [pc |-> 0, call |-> 0]],
   poller |-> [pc |-> 0, call |-> 0]]

\* Every protocol instance idle, its socket in state ws; nothing in flight.
SequencersAtRest(ws) ==
  /\ now = 0
  /\ wsReadyState = [c \in Clients |-> ws]
  /\ commandQueue = [c \in Clients |-> <<>>]
  /\ isProcessing = [c \in Clients |-> FALSE]
  /\ timer = [c \in Clients |-> -1]
  /\ drainOwner = [c \in Clients |-> 0]
  /\ calls = <<>>
  /\ txLog = [c \in Clients |-> <<>>]
  /\ skipped = {}
  /\ uplink = [c \in Clients |-> <<>>]
  /\ converting = {}
  /\ serialLog = <<>>
  /\ page = PageMounted

\* ------------------------------------------------------------ Client page

\* `protocol.value && wsConnected.value`: true from the 'open' event of the
\* page's socket to its 'close' event.
wsConnected(c) == wsReadyState[c] = "OPEN"

\* The socket's 'message' event source: the server's message f arrives on
\* client c's connection.
ServerMessage(c, f) ==
  /\ wsReadyState[c] = "OPEN"
  /\ inbox' = [inbox EXCEPT ![c] = Append(@, f)]
  /\ UNCHANGED <<codecVars, linkVars, socketVars, deviceState, now, seqVars, upVars>>
  /\ UNCHANGED page

\* 'open' listener of the socket connect() created (the first one, or the one
\* created 2000 ms after a 'close'), up to its first await: wsConnected is
\* set, a new DPS150Protocol replaces the previous instance, whose drain, if
\* one is left, can only skip sends on its closed socket, and initSession()
\* is queued on the new, idle instance. No ref of the snapshot is assigned.
ClientOpen(c) ==
  /\ wsReadyState[c] \in {"CONNECTING", "CLOSED"}
  /\ wsReadyState' = [wsReadyState EXCEPT ![c] = "OPEN"]
  /\ LET id == Len(calls) + 1
         item == [id |-> id, frame |-> initSession]
     IN  /\ isProcessing' = [isProcessing EXCEPT ![c] = TRUE]
         /\ commandQueue' = [commandQueue EXCEPT ![c] = <<>>]
         /\ txLog' = [txLog EXCEPT ![c] = Append(@, [id |-> id, frame |-> item.frame, t |-> now])]
         /\ uplink' = [uplink EXCEPT ![c] = Append(@, item)]
         /\ timer' = [timer EXCEPT ![c] = WakeTime(now)]
         /\ drainOwner' = [drainOwner EXCEPT ![c] = id]
         /\ calls' = Append(calls, [client |-> c, status |-> "pending", starter |-> TRUE])
  /\ UNCHANGED <<codecVars, linkVars, socketVars, inbox, deviceState, now,
                 skipped, converting, serialLog>>
  /\ UNCHANGED page

\* v-model.number="voltageSetpoint": the user edits the input field.
VoltageInput(c, volts) ==
  /\ deviceState' = [deviceState EXCEPT ![c].voltageSetpoint = volts]
  /\ UNCHANGED <<codecVars, linkVars, socketVars, inbox, now, seqVars, upVars>>
  /\ UNCHANGED page

\* v-model.number="currentLimit": the user edits the input field.
CurrentInput(c, amps) ==
  /\ deviceState' = [deviceState EXCEPT ![c].currentLimit = amps]
  /\ UNCHANGED <<codecVars, linkVars, socketVars, inbox, now, seqVars, upVars>>
  /\ UNCHANGED page

\* updateVoltage(), up to its first suspension.
UpdateVoltage(c) ==
  /\ wsConnected(c)
  /\ queueCommand(c, setVoltage(deviceState[c].voltageSetpoint))
  /\ UNCHANGED <<codecVars, linkVars, socketVars, inbox, deviceState, now,
                 wsReadyState, converting, serialLog>>
  /\ UNCHANGED page

\* updateCurrent(), up to its first suspension.
UpdateCurrent(c) ==
  /\ wsConnected(c)
  /\ queueCommand(c, setCurrent(deviceState[c].currentLimit))
  /\ UNCHANGED <<codecVars, linkVars, socketVars, inbox, deviceState, now,
                 wsReadyState, converting, serialLog>>
  /\ UNCHANGED page

\* toggleOutput(), up to its first suspension: the ref is flipped, then the
\* new value is queued.
ToggleOutput(c) ==
  /\ wsConnected(c)
  /\ deviceState' = [deviceState EXCEPT ![c].outputEnabled = ~@]
  /\ queueCommand(c, setOutputState(~deviceState[c].outputEnabled))
  /\ UNCHANGED <<codecVars, linkVars, socketVars, inbox, now,
                 wsReadyState, converting, serialLog>>
  /\ UNCHANGED page

\* ------------------------------------------------------------ Page session
\* The page over its successive connections.  Connection k is the k-th socket
\* connect() creates together with the DPS150Protocol built on it; it takes
\* slot k of wsReadyState, commandQueue, isProcessing, timer, drainOwner and
\* txLog.  The timeouts of 100, 200 and 2000 ms and the 500 ms interval run
\* their callbacks at any later step.

\* The steps of the 'open' listener, in order; each is awaited before the next.
OpenerScript ==
  << [kind |-> "queue", frame |-> initSession],
     [kind |-> "wait"],
     [kind |-> "queue", frame |-> requestAllState],
     [kind |-> "wait"],
     [kind |-> "queue", frame |-> requestVoltageSetpoint],
     [kind |-> "queue", frame |-> requestCurrentSetpoint],
     [kind |-> "queue", frame |-> requestOutputState],
     [kind |-> "queue", frame |-> requestInputVoltage],
     [kind |-> "queue", frame |-> requestOutputTelemetry],
     [kind |-> "queue", frame |-> requestTemperature],
     [kind |-> "interval"] >>

\* The three requests of the interval callback, in order.
PollScript == <<requestInputVoltage, requestOutputTelemetry, requestTemperature>>

\* `await protocol.value.queueCommand(...)` has returned: the call's promise
\* is resolved (call 0: nothing is awaited).
Awaited(call) == IF call = 0 THEN TRUE ELSE calls[call].status = "resolved"

\* A promise some listener of the page awaits has resolved: that listener
\* resumes in a microtask, before the event loop runs any other task.
MicrotaskPending ==
  \/ \E k \in Clients :
       /\ page.opener[k].call # 0
       /\ calls[page.opener[k].call].status = "resolved"
  \/ /\ page.poller.call # 0
     /\ calls[page.poller.call].status = "resolved"

\* What every step of the page leaves alone besides the sequencer.
PageFrame ==
  UNCHANGED <<codecVars, linkVars, socketVars, inbox, now, converting, serialLog>>

\* The mutant of SessionOpen: the listener does not queue initSession().
SessionOpenSkipsInit(k) ==
  /\ k = page.socket
  /\ wsReadyState[k] = "CONNECTING"
  /\ wsReadyState' = [wsReadyState EXCEPT ![k] = "OPEN"]
  /\ page' = [page EXCEPT !.wsConnected = TRUE,
                          !.protocol = page.socket,
                          !.opener[k] = [pc |-> 2, call |-> 0]]
  /\ UNCHANGED <<commandQueue, isProcessing, timer, drainOwner, calls, txLog,
                 skipped, uplink, deviceState>>
  /\ PageFrame

\* Socket k opens and its 'open' listener runs up to its first suspension:
\* wsConnected is set, protocol.value becomes a new DPS150Protocol on
\* socket.value, and initSession() is queued on it; the new instance is
\* idle and its socket OPEN, so processQueue starts and sends the frame.
SessionOpen(k) ==
  /\ k = page.socket
  /\ wsReadyState[k] = "CONNECTING"
  /\ wsReadyState' = [wsReadyState EXCEPT ![k] = "OPEN"]
  /\ page' = [page EXCEPT !.wsConnected = TRUE,
                          !.protocol = page.socket,
                          !.opener[k] = [pc |-> 1, call |-> Len(calls) + 1]]
  /\ LET c == page.socket
         item == [id |-> Len(calls) + 1, frame |-> OpenerScript[1].frame]
     IN  /\ isProcessing' = [isProcessing EXCEPT ![c] = TRUE]
         /\ commandQueue' = [commandQueue EXCEPT ![c] = <<>>]
         /\ txLog' = [txLog EXCEPT ![c] = Append(@, [id |-> item.id, frame |-> item.frame, t |-> now])]
         /\ uplink' = [uplink EXCEPT ![c] = Append(@, item)]
         /\ timer' = [timer EXCEPT ![c] = WakeTime(now)]
         /\ drainOwner' = [drainOwner EXCEPT ![c] = item.id]
         /\ calls' = Append(calls, [client |-> c, status |-> "pending", starter |-> TRUE])
  /\ UNCHANGED <<skipped, deviceState>>
  /\ PageFrame

\* The 'open' listener of socket k resumes after the step it awaited and
\* runs its next step on protocol.value, up to the next suspension.
OpenerResume(k) ==
  /\ page.opener[k].pc \in 1..(Len(OpenerScript) - 1)
  /\ Awaited(page.opener[k].call)
  /\ LET step == OpenerScript[page.opener[k].pc + 1]
     IN  CASE step.kind = "queue" ->
                /\ queueCommand(page.protocol, step.frame)
                /\ page' = [page EXCEPT !.opener[k] =
                              [pc |-> @.pc + 1, call |-> Len(calls) + 1]]
                /\ UNCHANGED wsReadyState
           [] step.kind = "wait" ->
                /\ page' = [page EXCEPT !.opener[k] = [pc |-> @.pc + 1, call |-> 0]]
                /\ UNCHANGED <<seqVars, uplink>>
           [] step.kind = "interval" ->
                /\ page' = [page EXCEPT !.opener[k] = [pc |-> @.pc + 1, call |-> 0],
                                        !.telemetryInterval = k,
                                        !.intervalActive = TRUE]
                /\ UNCHANGED <<seqVars, uplink>>
  /\ UNCHANGED deviceState
  /\ PageFrame

\* The interval fires: under `wsConnected.value && protocol.value` the
\* callback queues its first request and suspends.  One callback runs at a
\* time.
PollFire ==
  /\ page.intervalActive
  /\ page.poller.pc = 0
  /\ page.wsConnected /\ page.protocol # 0
  /\ queueCommand(page.protocol, PollScript[1])
  /\ page' = [page EXCEPT !.poller = [pc |-> 1, call |-> Len(calls) + 1]]
  /\ UNCHANGED <<wsReadyState, deviceState>>
  /\ PageFrame

\* The interval callback resumes and queues its next request, or returns.
PollResume ==
  /\ page.poller.pc > 0
  /\ Awaited(page.poller.call)
  /\ IF page.poller.pc < Len(PollScript)
     THEN /\ queueCommand(page.protocol, PollScript[page.poller.pc + 1])
          /\ page' = [page EXCEPT !.poller = [pc |-> @.pc + 1, call |-> Len(calls) + 1]]
          /\ UNCHANGED wsReadyState
     ELSE /\ page' = [page EXCEPT !.poller = [pc |-> 0, call |-> 0]]
          /\ UNCHANGED <<seqVars, uplink>>
  /\ UNCHANGED deviceState
  /\ PageFrame

\* updateVoltage(), on the page's current protocol instance.
SessionUpdateVoltage ==
  /\ page.protocol # 0 /\ page.wsConnected
  /\ queueCommand(page.protocol, setVoltage(deviceState[1].voltageSetpoint))
  /\ page' = [page EXCEPT !.clicked = TRUE]
  /\ UNCHANGED <<wsReadyState, deviceState>>
  /\ PageFrame

\* updateCurrent(), on the page's current protocol instance.
SessionUpdateCurrent ==
  /\ page.protocol # 0 /\ page.wsConnected
  /\ queueCommand(page.protocol, setCurrent(deviceState[1].currentLimit))
  /\ page' = [page EXCEPT !.clicked = TRUE]
  /\ UNCHANGED <<wsReadyState, deviceState>>
  /\ PageFrame

\* toggleOutput(), on the page's current protocol instance.
SessionToggleOutput ==
  /\ page.protocol # 0 /\ page.wsConnected
  /\ deviceState' = [deviceState EXCEPT ![1].outputEnabled = ~@]
  /\ queueCommand(page.protocol, setOutputState(~deviceState[1].outputEnabled))
  /\ page' = [page EXCEPT !.clicked = TRUE]
  /\ UNCHANGED wsReadyState
  /\ PageFrame

\* Socket k closes and its 'close' listener runs: wsConnected is cleared,
\* the interval telemetryInterval refers to is cleared, and connect() is
\* scheduled.
SessionClose(k) ==
  /\ wsReadyState[k] = "OPEN"
  /\ wsReadyState' = [wsReadyState EXCEPT ![k] = "CLOSED"]
  /\ page' = [page EXCEPT !.wsConnected = FALSE,
                          !.intervalActive = FALSE,
                          !.reconnect = TRUE]
  /\ UNCHANGED <<commandQueue, isProcessing, timer, drainOwner, calls, txLog,
                 skipped, uplink, deviceState>>
  /\ PageFrame

\* setTimeout(connect, 2000) fires: connect() creates the next socket.
Reconnect ==
  /\ page.reconnect
  /\ page.socket + 1 \in Clients
  /\ page' = [page EXCEPT !.socket = @ + 1, !.reconnect = FALSE]
  /\ UNCHANGED <<seqVars, uplink, deviceState>>
  /\ PageFrame

\* ------------------------------------------------------------ initial states

CodecIdle ==
  /\ args = [fn |-> "none"]
  /\ result = "none"

\* The relay and the clients at rest, the port handle being p.
RelayAtRest(p) ==
  /\ serialPort = p
  /\ wire = <<>>
  /\ sent = <<>>
  /\ buffer = <<>>
  /\ received = <<>>
  /\ chunked = FALSE
  /\ emitted = <<>>
  /\ sockets = {}
  /\ readyState = [c \in Clients |-> "NONE"]
  /\ inbox = [c \in Clients |-> <<>>]
  /\ deviceState = [c \in Clients |-> DefaultState]
  /\ SequencersAtRest("CONNECTING")

RelayIdle == RelayAtRest("null")

\* After module load: connectSerial() has opened the port (or failed to),
\* no client has connected.
InitRelay == \E p \in {"open", "null"} : RelayAtRest(p)

\* ------------------------------------------------------------ SpecFramer
\* The read loop over an arbitrary byte stream, cut into arbitrary chunks.

InitFramer == CodecIdle /\ InitRelay

NextFramer ==
  \/ \E b \in StreamBytes : DeviceWriteByte(b)
  \/ \E n \in 0..Len(wire) : ReadChunk(n)
  \/ ReadEnds

SpecFramer == InitFramer /\ [][NextFramer]_vars

\* ------------------------------------------------------------ SpecE2E
\* Device frames, relayed to one client that applies them to its snapshot.

InitE2E == CodecIdle /\ InitRelay

NextE2E ==
  \/ \E f \in DeviceFrames : DeviceWriteFrame(f)
  \/ \E n \in 0..Len(wire) : ReadChunk(n)
  \/ Upgrade(1)
  \/ SocketOpen(1)
  \/ ClientOnMessage(1)

SpecE2E == InitE2E /\ [][NextE2E]_vars

\* ------------------------------------------------------------ SpecFanout
\* Device frames broadcast to clients that connect and leave.

InitFanout == CodecIdle /\ InitRelay

NextFanout ==
  \/ \E f \in FanoutFrames : DeviceWriteFrame(f)
  \/ \E n \in 0..Len(wire) : ReadChunk(n)
  \/ \E c \in Clients :
       \/ Upgrade(c)
       \/ SocketOpen(c)
       \/ SocketClosing(c)
       \/ SocketClose(c)
       \/ SocketError(c)

SpecFanout == InitFanout /\ [][NextFanout]_vars

\* ------------------------------------------------------------ SpecSeq
\* One protocol instance, its callers and the clock.

\* A client page whose socket has just opened: the protocol instance is new.
ClientsConnected ==
  /\ serialPort = "open"
  /\ wire = <<>>
  /\ sent = <<>>
  /\ buffer = <<>>
  /\ received = <<>>
  /\ chunked = FALSE
  /\ emitted = <<>>
  /\ sockets = Clients
  /\ readyState = [c \in Clients |-> "OPEN"]
  /\ inbox = [c \in Clients |-> <<>>]
  /\ deviceState = [c \in Clients |-> DefaultState]
  /\ SequencersAtRest("OPEN")

InitSeq == CodecIdle /\ ClientsConnected

NextSeq ==
  \/ \E f \in ClientFrames : Len(calls) < MaxCmds /\ QueueCommand(1, f)
  \/ TimerFire(1)
  \/ WsClose(1)
  \/ Tick

SpecSeq == InitSeq /\ [][NextSeq]_vars

\* ------------------------------------------------------------ SpecSeqLive
\* SpecSeq with timers that fire: time goes on while a timeout is pending,
\* and a timeout that is due runs its callback.

NextSeqLive == NextSeq \/ TickPending

SpecSeqLive ==
  /\ InitSeq
  /\ [][NextSeqLive]_vars
  /\ WF_vars(TickPending)
  /\ WF_vars(TimerFire(1))

\* ------------------------------------------------------------ SpecLink
\* Two clients, each with its protocol instance, and the relay's forwarding.

InitLink == CodecIdle /\ ClientsConnected

NextLink ==
  \/ \E c \in Clients, f \in LinkFrames :
       Len(calls) < MaxLinkCmds /\ QueueCommand(c, f)
  \/ \E c \in Clients : TimerFire(c)
  \/ \E c \in Clients, kind \in MessageKinds : RelayOnMessage(c, kind)
  \/ \E m \in converting : BlobReady(m)
  \/ ReadEnds
  \/ Tick

SpecLink == InitLink /\ [][NextLink]_vars

\* ------------------------------------------------------------ SpecCodec
\* The pure functions of the codec, applied to inputs drawn from bounded sets.

CodecArgs ==
  [fn : {"buildFrame"}, cmd : Commands, reg : ByteSample,
   data : SeqsUpTo(ByteSample, MaxLen)]

\* Setpoints handed to setVoltage: 12.0, 0.5, 5.0, 0.0 and -1.0.
FloatSample == {1094713344, 1056964608, 1084227584, 0, -1082130432}

SetVoltageArgs == [fn : {"setVoltage"}, volts : FloatSample]

\* Longest array handed to decodeFloat32, the largest offset, and the byte
\* values of the array.
MaxBuf == 6

MaxOffset == 3

DecodeBytes == {0, 1, 255}

DecodeArgs ==
  [fn : {"decodeFloat32"}, bytes : SeqsUpTo(DecodeBytes, MaxBuf),
   offset : 0..MaxOffset]

InitCodec ==
  /\ args \in CodecArgs \cup SetVoltageArgs \cup DecodeArgs
  /\ result = "none"
  /\ RelayIdle

CallBuildFrame ==
  /\ args.fn = "buildFrame"
  /\ result = "none"
  /\ result' = buildFrame(args.cmd, args.reg, args.data)
  /\ UNCHANGED args
  /\ UNCHANGED <<linkVars, socketVars, inbox, deviceState, now, seqVars, upVars>>
  /\ UNCHANGED page

CallSetVoltage ==
  /\ args.fn = "setVoltage"
  /\ result = "none"
  /\ result' = setVoltage(args.volts)
  /\ UNCHANGED args
  /\ UNCHANGED <<linkVars, socketVars, inbox, deviceState, now, seqVars, upVars>>
  /\ UNCHANGED page

\* The number returned is held as a one-element tuple.
CallDecodeFloat32 ==
  /\ args.fn = "decodeFloat32"
  /\ result = "none"
  /\ result' = <<decodeFloat32(args.bytes, args.offset)>>
  /\ UNCHANGED args
  /\ UNCHANGED <<linkVars, socketVars, inbox, deviceState, now, seqVars, upVars>>
  /\ UNCHANGED page

NextCodec == CallBuildFrame \/ CallSetVoltage \/ CallDecodeFloat32

SpecCodec == InitCodec /\ [][NextCodec]_vars

\* ------------------------------------------------------------ SpecInterp
\* handleProtocolMessage applied once to a snapshot and a received message.

\* A snapshot that differs from DefaultState in every field (5.0 V, 1.0 A,
\* and telemetry patterns no sample frame decodes to).
OtherState ==
  [outputEnabled |-> TRUE,
   voltageSetpoint |-> 1084227584,
   currentLimit |-> 1065353216,
   actualVoltage |-> 11,
   actualCurrent |-> 12,
   outputPower |-> 13,
   internalTemperature |-> 14,
   inputVoltage |-> 15,
   voltageMode |-> "CV",
   status |-> "OTP"]

\* A message as the device frames it: header, command, register, length,
\* payload, checksum.
RECURSIVE SumRange(_, _, _)
SumRange(s, lo, hi) ==
  IF lo > hi THEN 0
  ELSE IF lo = hi THEN s[lo]
  ELSE LET mid == (lo + hi) \div 2
       IN  SumRange(s, lo, mid) + SumRange(s, mid + 1, hi)

DeviceFrame(reg, data) ==
  <<HEADER_INPUT, CMD_GET, reg, Len(data) % 256>> \o data
    \o <<(reg + Len(data) + SumRange(data, 1, Len(data))) % 256>>

\* Payload bytes that differ from position to position.
PayloadByte(i) == (7 * i + 3) % 256

\* An all-state payload of n bytes whose output-enable, protection and mode
\* bytes (offsets 107, 108, 109) are e, p and m.
AllStatePayload(n, e, p, m) ==
  IF n = 0 THEN <<>>
  ELSE [i \in 1..n |->
          IF i = 108 THEN e ELSE IF i = 109 THEN p ELSE IF i = 110 THEN m
          ELSE PayloadByte(i)]

\* Payload lengths of the all-state frames: empty, short, just below the
\* last offset read, one below the dump size, the dump size, and above it.
AllStateLens == {0, 1, 109, 110, 138, 139, 140}

AllStateFrames ==
  { DeviceFrame(REG_ALL, AllStatePayload(n, e, p, m)) :
      n \in AllStateLens, e \in {0, 1, 2}, p \in {0, 1, 5, 6}, m \in {0, 1, 2} }
  \cup { DeviceFrame(REG_ALL, AllStatePayload(139, 1, b, 0)) : b \in 0..255 }
  \cup { DeviceFrame(REG_ALL, AllStatePayload(139, 1, 0, b)) : b \in 0..255 }

\* One-byte frames of the ordinal registers, for every byte value.
OrdinalFrames ==
  { DeviceFrame(r, <<b>>) :
      r \in {REG_OUTPUT_ENABLE, REG_PROTECTION_STATE, REG_MODE}, b \in 0..255 }

\* Payloads of the float registers: 24.0, too short, 12 bytes, and longer.
FloatPayloads ==
  { <<0, 0, 192, 65>>, <<0, 0, 192>>, <<1>>,
    [i \in 1..12 |-> PayloadByte(i)], [i \in 1..13 |-> PayloadByte(i)] }

\* Frames of every known register, of two unknown ones, and with the
\* outbound header.
RegisterFrames ==
  { DeviceFrame(r, data) :
      r \in {REG_INPUT_VOLTAGE, REG_VOLTAGE_SET, REG_CURRENT_SET,
              REG_OUTPUT_TELEMETRY, REG_TEMPERATURE, REG_OUTPUT_ENABLE,
              REG_PROTECTION_STATE, REG_MODE, 197, 0},
      data \in FloatPayloads }
  \cup { <<HEADER_OUTPUT, CMD_SET, REG_VOLTAGE_SET, 4, 0, 0, 192, 65, 198>>,
         <<HEADER_INPUT, CMD_GET, REG_VOLTAGE_SET, 0, 193>>,
         <<HEADER_INPUT, CMD_GET, REG_MODE, 1>> }

\* Messages cut short: the length byte announces more payload bytes than
\* follow it (a setpoint with 2 of 4 bytes, telemetry with 9 of 12, a flag
\* with 1 of 2, a temperature with 4 of 5, a dump with 100 of 139).
TruncatedFrames ==
  { <<HEADER_INPUT, CMD_GET, REG_VOLTAGE_SET, 4, 0, 0>>,
    <<HEADER_INPUT, CMD_GET, REG_OUTPUT_TELEMETRY, 12, 1, 2, 3, 4, 5, 6, 7, 8, 9>>,
    <<HEADER_INPUT, CMD_GET, REG_OUTPUT_ENABLE, 2, 1>>,
    <<HEADER_INPUT, CMD_GET, REG_TEMPERATURE, 5, 0, 0, 192, 65>>,
    <<HEADER_INPUT, CMD_GET, REG_ALL, 139>> \o AllStatePayload(100, 1, 1, 1) }

InterpArgs ==
  [fn : {"handleProtocolMessage"}, st : {DefaultState, OtherState},
   bytes : AllStateFrames \cup OrdinalFrames \cup RegisterFrames
             \cup TruncatedFrames]

\* Client 1 is connected, its snapshot is args.st and the relay has just
\* handed its connection the message args.bytes.
InitInterp ==
  /\ args \in InterpArgs
  /\ result = "none"
  /\ serialPort = "open"
  /\ wire = <<>>
  /\ sent = <<>>
  /\ buffer = <<>>
  /\ received = <<>>
  /\ chunked = FALSE
  /\ emitted = <<>>
  /\ sockets = Clients
  /\ readyState = [c \in Clients |-> "OPEN"]
  /\ inbox = [c \in Clients |-> IF c = 1 THEN <<args.bytes>> ELSE <<>>]
  /\ deviceState = [c \in Clients |-> IF c = 1 THEN args.st ELSE DefaultState]
  /\ SequencersAtRest("OPEN")

NextInterp == ClientOnMessage(1)

SpecInterp == InitInterp /\ [][NextInterp]_vars

\* ------------------------------------------------------------ SpecPage
\* One client page: its socket opens and closes, messages arrive, the user
\* edits and clicks, the poll timer queues a request, the drain runs.

\* Number of queueCommand calls in SpecPage.
MaxPageCmds == 2

\* The messages the server sends: output on, setpoint 24.0 V, mode byte 1.
PageFrames ==
  { <<240, 161, 219, 1, 1, 221>>,
    <<240, 161, 193, 4, 0, 0, 192, 65, 198>>,
    <<240, 161, 221, 1, 1, 223>> }

\* What the user types into the two input fields: 5.0 V and 1.0 A.
VoltsTyped == {1084227584}

AmpsTyped == {1065353216}

InitPage == CodecIdle /\ RelayAtRest("open")

NextPage ==
  \/ Len(calls) < MaxPageCmds /\ ClientOpen(1)
  \/ \E f \in PageFrames : inbox[1] = <<>> /\ ServerMessage(1, f)
  \/ ClientOnMessage(1)
  \/ inbox[1] = <<>> /\ WsClose(1)
  \/ \E v \in VoltsTyped : VoltageInput(1, v)
  \/ \E a \in AmpsTyped : CurrentInput(1, a)
  \/ Len(calls) < MaxPageCmds /\ UpdateVoltage(1)
  \/ Len(calls) < MaxPageCmds /\ UpdateCurrent(1)
  \/ Len(calls) < MaxPageCmds /\ ToggleOutput(1)
  \/ Len(calls) < MaxPageCmds /\ wsConnected(1) /\ QueueCommand(1, requestInputVoltage)
  \/ TimerFire(1)
  \/ Tick

SpecPage == InitPage /\ [][NextPage]_vars

\* ------------------------------------------------------------ SpecLoss
\* The relay from module load on, its link open: the device writes, the read
\* loop runs and ends, clients connect and send their first command, the
\* 'message' listener forwards.

InitLoss == CodecIdle /\ RelayAtRest("open")

NextLoss ==
  \/ \E f \in FanoutFrames : DeviceWriteFrame(f)
  \/ \E n \in 0..Len(wire) : ReadChunk(n)
  \/ ReadEnds
  \/ \E c \in Clients :
       \/ Upgrade(c)
       \/ SocketOpen(c)
       \/ readyState[c] = "OPEN" /\ wsReadyState[c] = "CONNECTING" /\ ClientOpen(c)
  \/ \E c \in Clients, kind \in MessageKinds : RelayOnMessage(c, kind)
  \/ \E m \in converting : BlobReady(m)

SpecLoss == InitLoss /\ [][NextLoss]_vars

\* ------------------------------------------------------------ SpecSession
\* One page over two connections: the sockets open and close, the page
\* reconnects, the 'open' listeners and the interval callback run their
\* steps, the user clicks once, the drains run.

\* Number of queueCommand calls in SpecSession.
MaxSessionCmds == 10

\* Number of queueCommand calls on the protocol instance of a reconnection.
MaxReconnectCmds == 2

\* The queueCommand calls made on instance k so far.
CallsOn(k) == Cardinality({i \in 1..Len(calls) : calls[i].client = k})

\* Another queueCommand call on protocol.value is within the bounds.
CallBudget ==
  /\ Len(calls) < MaxSessionCmds
  /\ page.protocol > 1 => CallsOn(page.protocol) < MaxReconnectCmds

InitSession == CodecIdle /\ RelayAtRest("open")

NextSession ==
  \/ \E k \in Clients :
       ~MicrotaskPending /\ Len(calls) < MaxSessionCmds /\ SessionOpen(k)
  \/ \E k \in Clients :
       /\ page.opener[k].call = 0 => ~MicrotaskPending
       /\ CallBudget
       /\ OpenerResume(k)
  \/ ~MicrotaskPending /\ CallBudget /\ PollFire
  \/ CallBudget /\ PollResume
  \/ /\ ~MicrotaskPending
     /\ CallBudget
     /\ ~page.clicked
     /\ \/ SessionUpdateVoltage
        \/ SessionUpdateCurrent
        \/ SessionToggleOutput
  \/ \E k \in Clients : ~MicrotaskPending /\ TimerFire(k)
  \/ \E k \in Clients : ~MicrotaskPending /\ SessionClose(k)
  \/ ~MicrotaskPending /\ Reconnect
  \/ ~MicrotaskPending /\ TickPending

SpecSession == InitSession /\ [][NextSession]_vars

\* ------------------------------------------------------------ claims

\* C1: for every command byte, register byte and payload of N <= 255 bytes
\* (here N <= MaxLen), buildFrame returns exactly N+5 bytes: 0xF1, the
\* command, the register, N, the payload unchanged, and last the byte
\* (register + N + sum of payload) mod 256.
C1_BuildFrameLayout ==
  (args.fn = "buildFrame" /\ result # "none") =>
    LET N == Len(args.data) IN
    /\ Len(result) = N + 5
    /\ result[1] = 241
    /\ result[2] = args.cmd
    /\ result[3] = args.reg
    /\ result[4] = N
    /\ \A i \in 1..N : result[4 + i] = args.data[i]
    /\ result[N + 5] = (args.reg + N + SumBytes(args.data)) % 256

\* A frame was built for a full-length payload whose byte sum wraps.
C1_Witness ==
  /\ args.fn = "buildFrame"
  /\ result # "none"
  /\ Len(args.data) = MaxLen
  /\ args.reg + Len(args.data) + SumBytes(args.data) > 255

\* A frame is well-formed (spec, data model) when it has its five framing
\* bytes, the payload its length byte announces, and the checksum of
\* register, length and payload as its trailing byte.
WellFormed(f) ==
  /\ Len(f) >= 5
  /\ Len(f) = f[4] + 5
  /\ f[Len(f)] = (f[3] + f[4] + SumBytes(SubSeq(f, 5, Len(f) - 1))) % 256

\* A frame complete by its length byte whose trailing byte is not the
\* checksum of its register, length and payload.
Corrupt(f) ==
  /\ Len(f) >= 5
  /\ Len(f) = f[4] + 5
  /\ f[Len(f)] # (f[3] + f[4] + SumBytes(SubSeq(f, 5, Len(f) - 1))) % 256

\* C2 (as claimed): a frame whose trailing byte differs from its checksum
\* is discarded, so handing it to a client never changes a DeviceState
\* field; for the stream F0 A1 C1 00 C1 F0 B1 DB 01 01 DC F0 the frame
\* F0 B1 DB 01 01 DC leaves output-enabled as it was.
C2_BadChecksumDiscarded ==
  [][\A c \in Clients :
       (/\ inbox[c] # <<>>
        /\ inbox'[c] = Tail(inbox[c])
        /\ Corrupt(Head(inbox[c])))
       => deviceState'[c] = deviceState[c]]_vars

\* C3: whatever the chunks the stream arrives in, the frames emitted so far
\* are those the read loop emits when the bytes received so far arrive as
\* one chunk.
C3_ChunkingInvariance ==
  emitted = ProcessChunk(<<>>, received).frames

\* Two frames have been emitted from a stream that arrived in several chunks,
\* and part of a third is held back.
C3_Witness ==
  /\ Len(emitted) >= 2
  /\ Len(received) >= 4
  /\ chunked
  /\ Len(buffer) >= 2

\* C4 (as claimed): once the relay has read a stream that is the
\* concatenation of K well-formed frames, it has emitted exactly those K
\* frames.
C4_KFramesYieldK ==
  (wire = <<>> /\ \A i \in 1..Len(sent) : WellFormed(sent[i])) => emitted = sent

\* C9: in every step, each client's connection is handed exactly the frames
\* extracted in that step if it is a member of the set and OPEN at that
\* moment, and nothing otherwise (so nothing is kept for it for later).
C9_BroadcastToOpenOnly ==
  [][\A c \in Clients :
       LET new == SubSeq(emitted', Len(emitted) + 1, Len(emitted'))
       IN  inbox'[c] = IF c \in sockets /\ readyState[c] = "OPEN"
                       THEN inbox[c] \o new
                       ELSE inbox[c]]_vars

\* Client 1 has received both frames; client 2, a member that was OPEN for
\* the first frame and CLOSING for the second, only the first.
C9_Witness ==
  /\ Len(emitted) = 2
  /\ inbox[1] = emitted
  /\ 2 \in sockets
  /\ readyState[2] = "CLOSING"
  /\ inbox[2] = <<emitted[1]>>

\* C10: a client is in the fan-out set exactly from its upgrade until its
\* connection has ended (by close, or by error and the close that follows),
\* and never after.
C10_Membership ==
  \A c \in Clients :
    c \in sockets <=> readyState[c] \in {"CONNECTING", "OPEN", "CLOSING"}

\* Client 1 has left, client 2 is still a member.
C10_Witness ==
  /\ readyState[1] = "CLOSED"
  /\ 1 \notin sockets
  /\ 2 \in sockets

\* The ids of the calls whose frame client c has passed to ws.send.
Transmitted(c) == {txLog[c][i].id : i \in 1..Len(txLog[c])}

\* C5: on one protocol instance, frames are transmitted in the order of
\* their queueCommand calls, and two consecutive transmissions are at least
\* the fixed delay apart.
C5_OrderAndSpacing ==
  \A i \in 1..(Len(txLog[1]) - 1) :
    /\ txLog[1][i].id < txLog[1][i + 1].id
    /\ txLog[1][i + 1].t - txLog[1][i].t >= 50

\* Three frames were transmitted: the second was queued while the drain
\* started by the first was in progress, the third after the queue went idle.
C5_Witness ==
  /\ Len(txLog[1]) = 3
  /\ Len(calls) = 3
  /\ calls[1].starter
  /\ ~calls[2].starter
  /\ calls[3].starter

\* C6 (as claimed): the promise of a queueCommand call is resolved only
\* once that call's frame has been transmitted.
C6_ResolvedOnlyAfterTransmit ==
  \A id \in 1..Len(calls) :
    calls[id].status = "resolved" => id \in Transmitted(calls[id].client)

\* C7 (as claimed): any two consecutive writes to the serial port are at
\* least the fixed delay apart, whichever clients they come from.
C7_SerialWritesSpaced ==
  \A i \in 1..(Len(serialLog) - 1) :
    serialLog[i + 1].t - serialLog[i].t >= 50

\* C8 (as claimed): a command that could not be transmitted because the
\* socket was not OPEN never has its promise resolved normally, and no
\* command queued behind it is transmitted.
C8_FailureReported ==
  \A id \in skipped :
    /\ calls[id].status # "resolved"
    /\ \A later \in Transmitted(calls[id].client) : later < id

\* C11: while the port handle is null, no step of the relay issues a serial
\* write, whatever arrives from the clients or finishes converting, and the
\* handle stays null: connectSerial() runs once, at start-up, so bytes that
\* arrived while the link was absent are never written later.
C11_NoWriteWhileAbsent ==
  [][serialPort = "null" => (serialLog' = serialLog /\ serialPort' = "null")]_vars

\* A client's message was transmitted, reached the relay's listener with the
\* link absent and left nothing behind: no write, nothing converting.
C11_Witness ==
  /\ serialPort = "null"
  /\ serialLog = <<>>
  /\ converting = {}
  /\ \E c \in Clients : txLog[c] # <<>> /\ uplink[c] = <<>>

\* The payload handleProtocolMessage cuts out of a message.
Payload(bytes) == Slice(bytes, 4, 4 + bytes[4])

\* A message handleProtocolMessage dispatches on register reg.
Dispatched(bytes, reg) ==
  Len(bytes) >= 5 /\ bytes[1] = HEADER_INPUT /\ bytes[3] = reg

\* Client 1 has applied the message args.bytes to the snapshot args.st.
Handled == args.fn = "handleProtocolMessage" /\ inbox[1] = <<>>

\* C12: an all-state message (register 0xFF) whose payload is shorter than
\* 139 bytes leaves the snapshot as it was; one with at least 139 payload
\* bytes overwrites every one of the ten fields in that one step, so the
\* outcome is the same whatever the snapshot held before.
C12_AllOrNothing ==
  (Handled /\ Dispatched(args.bytes, REG_ALL)) =>
    IF Len(Payload(args.bytes)) < 139
    THEN deviceState[1] = args.st
    ELSE \A other \in {DefaultState, OtherState} :
           deviceState[1] = handleProtocolMessage(other, args.bytes)

\* A 139-byte dump applied to a snapshot: every field changed.
C12_Witness ==
  /\ Handled
  /\ Dispatched(args.bytes, REG_ALL)
  /\ Len(Payload(args.bytes)) = 139
  /\ \A f \in DOMAIN DefaultState : deviceState[1][f] # args.st[f]

\* The fields a message of register reg may change (spec 4.4).
FieldsOf(reg) ==
  CASE reg = REG_INPUT_VOLTAGE -> {"inputVoltage"}
    [] reg = REG_VOLTAGE_SET -> {"voltageSetpoint"}
    [] reg = REG_CURRENT_SET -> {"currentLimit"}
    [] reg = REG_OUTPUT_TELEMETRY -> {"actualVoltage", "actualCurrent", "outputPower"}
    [] reg = REG_TEMPERATURE -> {"internalTemperature"}
    [] reg = REG_OUTPUT_ENABLE -> {"outputEnabled"}
    [] reg = REG_PROTECTION_STATE -> {"status"}
    [] reg = REG_MODE -> {"voltageMode"}
    [] OTHER -> {}

\* C13: applying a message of a single-field register (0xC0, 0xC1, 0xC2,
\* 0xC4, 0xDB, 0xDC, 0xDD) leaves every field but that register's own as it
\* was; one of register 0xC3 leaves every field but actual voltage, actual
\* current and power as it was; one of an unknown register changes nothing.
C13_OnlyMappedFields ==
  (Handled /\ Dispatched(args.bytes, args.bytes[3]) /\ args.bytes[3] # REG_ALL) =>
    \A f \in (DOMAIN DefaultState) \ FieldsOf(args.bytes[3]) :
      deviceState[1][f] = args.st[f]

\* A 12-byte telemetry message was applied: its three fields changed.
C13_Witness ==
  /\ Handled
  /\ Dispatched(args.bytes, REG_OUTPUT_TELEMETRY)
  /\ \A f \in FieldsOf(REG_OUTPUT_TELEMETRY) : deviceState[1][f] # args.st[f]
  /\ \A f \in (DOMAIN DefaultState) \ FieldsOf(REG_OUTPUT_TELEMETRY) :
       deviceState[1][f] = args.st[f]

\* C14 (as claimed): a field of the snapshot changes only in a step in which
\* the page applies an inbound message; no other operation of the page
\* (toggling the output, issuing a set command, editing a field, opening or
\* closing the socket, the drain) writes one.
C14_SingleWriter ==
  [][\A c \in Clients :
       deviceState'[c] # deviceState[c] =>
         (inbox[c] # <<>> /\ inbox'[c] = Tail(inbox[c]))]_vars

\* The fields no handler of the page but the message listener assigns.
TelemetryOnlyFields ==
  {"actualVoltage", "actualCurrent", "outputPower", "internalTemperature",
   "inputVoltage", "voltageMode", "status"}

\* C15 (as claimed): the snapshot is discarded on disconnect and created
\* anew when a connection opens, so after a reconnect every field holds its
\* default value until a message on the new connection sets it; stated here
\* for the fields only inbound messages write.
C15_FreshOnReconnect ==
  [][\A c \in Clients :
       (wsReadyState[c] = "CLOSED" /\ wsReadyState'[c] = "OPEN") =>
         \A f \in TelemetryOnlyFields : deviceState'[c][f] = DefaultState[f]]_vars

\* setVoltage(12.0) has returned: a SET frame for register 0xC1 whose payload
\* is 00 00 40 41.
SetTwelveVolts ==
  args.fn = "setVoltage" /\ args.volts = 1094713344 /\ result # "none"

\* C16 (as claimed): the SET (0xB1) frame for register 0xC1 with payload
\* 00 00 40 41 is exactly F1 B1 C1 04 00 00 40 41 C6.
C16_SetVoltageFrameAsClaimed ==
  SetTwelveVolts => result = <<241, 177, 193, 4, 0, 0, 64, 65, 198>>

\* C16 (amended): the SET (0xB1) frame for register 0xC1 with payload
\* 00 00 40 41 is exactly F1 B1 C1 04 00 00 40 41 46, the last byte being
\* (0xC1 + 4 + 0x40 + 0x41) mod 256 = 0x46.
C16_SetVoltageFrame ==
  SetTwelveVolts => result = <<241, 177, 193, 4, 0, 0, 64, 65, 70>>

C16_Witness == SetTwelveVolts /\ Len(result) = 9

\* The label the claim gives a mode byte: unknown ordinals fall back to the
\* snapshot's default label.
ClaimedModeLabel(b) ==
  CASE b = 0 -> "CC"
    [] b = 1 -> "CV"
    [] OTHER -> DefaultState.voltageMode

\* The label the claim gives a protection byte.
ClaimedProtectionLabel(b) ==
  CASE b = 1 -> "OVP"
    [] b = 2 -> "OCP"
    [] b = 3 -> "OPP"
    [] b = 4 -> "OTP"
    [] b = 5 -> "LVP"
    [] OTHER -> "OK"

\* C17 (as claimed): for every byte b, a protection byte b in 1..5 is
\* labelled OVP, OCP, OPP, OTP, LVP and any other b "OK"; a mode byte 0 is
\* labelled CC, 1 CV and any other b the default label CC; the single
\* registers 0xDC and 0xDD and bytes 108 and 109 of the all-state payload
\* are labelled alike.
C17_OrdinalLabels ==
  Handled =>
    LET data == Payload(args.bytes) IN
    /\ Dispatched(args.bytes, REG_PROTECTION_STATE) /\ args.bytes[4] >= 1 =>
         deviceState[1].status = ClaimedProtectionLabel(data[1])
    /\ Dispatched(args.bytes, REG_MODE) /\ args.bytes[4] >= 1 =>
         deviceState[1].voltageMode = ClaimedModeLabel(data[1])
    /\ Dispatched(args.bytes, REG_ALL) /\ Len(data) >= 139 =>
         /\ deviceState[1].status = ClaimedProtectionLabel(data[109])
         /\ deviceState[1].voltageMode = ClaimedModeLabel(data[110])

\* C18: with L the array's length, decodeFloat32(bytes, offset) returns 0
\* when L < offset + 4, reading nothing, and otherwise the little-endian
\* float32 of bytes offset..offset+3 and of no other byte: changing any
\* other byte of the array does not change what it returns.
C18_DecodeWithinBounds ==
  (args.fn = "decodeFloat32" /\ result # "none") =>
    LET L == Len(args.bytes)
        o == args.offset
    IN  IF L < o + 4
        THEN result = <<0>>
        ELSE /\ result = <<Float32Of(args.bytes[o + 1], args.bytes[o + 2],
                                     args.bytes[o + 3], args.bytes[o + 4])>>
             /\ \A k \in (1..L) \ ((o + 1)..(o + 4)), v \in DecodeBytes :
                  decodeFloat32([args.bytes EXCEPT ![k] = v], o) = result[1]

\* A decode at a non-zero offset of an array with bytes before and after the
\* four read, which returned something else than the float at offset 0.
C18_Witness ==
  /\ args.fn = "decodeFloat32"
  /\ result # "none"
  /\ args.offset > 0
  /\ Len(args.bytes) > args.offset + 4
  /\ result[1] # 0
  /\ result[1] # Float32Of(args.bytes[1], args.bytes[2], args.bytes[3], args.bytes[4])

\* The float32 at payload bytes o..o+3 (o counted from 0).
FloatAt(data, o) == Float32Of(data[o + 1], data[o + 2], data[o + 3], data[o + 4])

\* The payload positions (counted from 1) the all-state decode may depend
\* on: bytes 0..27 and 107, 108, 109.
AllStatePositions == (1..28) \cup {108, 109, 110}

\* The message with byte k of its payload replaced by v.
WithPayloadByte(bytes, k, v) == [bytes EXCEPT ![4 + k] = v]

\* C19: an all-state payload of at least 139 bytes is decoded as input
\* voltage = bytes 0..3, setpoint voltage = 4..7, current limit = 8..11,
\* actual voltage = 12..15, actual current = 16..19, power = 20..23,
\* temperature = 24..27, output-enabled = (byte 107 is 1), protection label
\* of byte 108, mode label of byte 109; changing any other payload byte
\* does not change the resulting snapshot.
C19_AllStateOffsets ==
  (Handled /\ Dispatched(args.bytes, REG_ALL) /\ Len(Payload(args.bytes)) >= 139) =>
    LET data == Payload(args.bytes)
        st == deviceState[1]
    IN  /\ st.inputVoltage = FloatAt(data, 0)
        /\ st.voltageSetpoint = FloatAt(data, 4)
        /\ st.currentLimit = FloatAt(data, 8)
        /\ st.actualVoltage = FloatAt(data, 12)
        /\ st.actualCurrent = FloatAt(data, 16)
        /\ st.outputPower = FloatAt(data, 20)
        /\ st.internalTemperature = FloatAt(data, 24)
        /\ st.outputEnabled = (data[108] = 1)
        /\ st.status = ProtectionLabel(data[109])
        /\ st.voltageMode = ModeLabel(data[110])
        /\ \A k \in (1..Len(data)) \ AllStatePositions, v \in DecodeBytes :
             handleProtocolMessage(args.st, WithPayloadByte(args.bytes, k, v)) = st

\* A 140-byte dump with output on, protection LVP and mode byte 1 was
\* applied to the default snapshot.
C19_Witness ==
  /\ Handled
  /\ Dispatched(args.bytes, REG_ALL)
  /\ Len(Payload(args.bytes)) = 140
  /\ args.st = DefaultState
  /\ deviceState[1].outputEnabled
  /\ deviceState[1].status = "LVP"
  /\ deviceState[1].voltageMode = "CV"
  /\ deviceState[1].inputVoltage # deviceState[1].voltageSetpoint

\* The checksum byte of a frame: its last byte.
ChecksumOf(frame) == frame[Len(frame)]

\* The amounts (mod 256) by which one byte is changed: every single bit, the
\* smallest and largest change, and changes across the sign bit.
ByteDeltas == {1, 2, 3, 4, 8, 16, 32, 64, 127, 128, 129, 254, 255}

\* C20: for every frame buildFrame returns, rebuilding it with exactly one
\* payload byte changed to a different value (here by each of ByteDeltas)
\* gives a different checksum byte.
C20_ChecksumSensitive ==
  (args.fn = "buildFrame" /\ result # "none") =>
    \A k \in 1..Len(args.data), d \in ByteDeltas :
      ChecksumOf(buildFrame(args.cmd, args.reg,
                            [args.data EXCEPT ![k] = (@ + d) % 256]))
        # ChecksumOf(result)

\* A frame with at least two different payload bytes whose checksum wrapped
\* around.
C20_Witness ==
  /\ args.fn = "buildFrame"
  /\ result # "none"
  /\ Len(args.data) >= 2
  /\ args.data[1] # args.data[2]
  /\ ChecksumOf(result) < args.reg

\* The bytes of a sequence of frames, in order.
RECURSIVE Flatten(_)
Flatten(frames) ==
  IF frames = <<>> THEN <<>> ELSE Head(frames) \o Flatten(Tail(frames))

\* The stream from its first sentinel on (empty without a sentinel).
FromFirstSentinel(s) ==
  LET first == IndexOf(s, HEADER_INPUT, 1)
  IN  IF first = 0 THEN <<>> ELSE SubSeq(s, first, Len(s))

IsPrefix(p, s) == Len(p) <= Len(s) /\ p = SubSeq(s, 1, Len(p))

\* C21: every frame emitted starts at a sentinel and the frames emitted,
\* laid end to end, are the received stream from its first sentinel up to
\* some point: they are emitted in the order of their sentinels, within a
\* chunk and across chunks, none twice; and what each client has been
\* handed is one unbroken stretch of that sequence, in the same order.
C21_StreamOrder ==
  /\ \A i \in 1..Len(emitted) : emitted[i] # <<>> /\ emitted[i][1] = HEADER_INPUT
  /\ IsPrefix(Flatten(emitted), FromFirstSentinel(received))
  /\ \A c \in Clients :
       \E i \in 1..(Len(emitted) + 1), j \in 0..Len(emitted) :
         inbox[c] = SubSeq(emitted, i, j)

\* One chunk completed two frames in a single pass, both clients were OPEN
\* and each was handed the two frames in stream order.
C21_Witness ==
  /\ ~chunked
  /\ Len(emitted) = 2
  /\ emitted[1] # emitted[2]
  /\ \A c \in Clients : readyState[c] = "OPEN" /\ inbox[c] = emitted

\* C22 (as claimed): the relay writes the messages of one client to the
\* serial port in the order that client sent them, ArrayBuffer or Blob.
C22_ForwardingOrder ==
  \A i, j \in 1..Len(serialLog) :
    (i < j /\ calls[serialLog[i].id].client = calls[serialLog[j].id].client)
      => serialLog[i].id < serialLog[j].id

\* The chunk a step of the read loop has taken in (empty in other steps).
ChunkRead == SubSeq(received', Len(received) + 1, Len(received'))

NoSentinelIn(s) == \A i \in 1..Len(s) : s[i] # HEADER_INPUT

\* C23 (as claimed): a chunk without a sentinel emits no frame and is
\* appended to the buffer, in every state of the framer.
C23_NoSentinelAppendedAsClaimed ==
  [][(ChunkRead # <<>> /\ NoSentinelIn(ChunkRead)) =>
       (emitted' = emitted /\ buffer' = buffer \o ChunkRead)]_vars

\* C23 (amended): a chunk without a sentinel emits no frame; it is appended
\* to the buffer when the buffer holds a sentinel (is not empty), and is
\* dropped, the buffer staying empty, when no sentinel is held.
C23_NoSentinelAppended ==
  [][(ChunkRead # <<>> /\ NoSentinelIn(ChunkRead)) =>
       /\ emitted' = emitted
       /\ buffer' = IF buffer = <<>> THEN <<>> ELSE buffer \o ChunkRead]_vars

\* The stream so far arrived as a sentinel followed by chunks without one,
\* and all of it is held in the buffer.
C23_Witness ==
  /\ chunked
  /\ Len(received) >= 2
  /\ received[1] = HEADER_INPUT
  /\ NoSentinelIn(Tail(received))
  /\ buffer = received
  /\ emitted = <<>>

\* The length byte announces more payload bytes than follow it.
Truncated(bytes) == Len(bytes) >= 5 /\ bytes[4] > Len(bytes) - 4

\* C24 (as claimed): applying a message whose length byte announces more
\* payload bytes than follow it changes no field of the snapshot.
C24_TruncatedChangesNothing ==
  (Handled /\ Truncated(args.bytes)) => deviceState[1] = args.st

\* A frame as the read loop cuts it: not empty, a sentinel first and no
\* sentinel after it.
OneSentinel(f) ==
  /\ f # <<>>
  /\ f[1] = HEADER_INPUT
  /\ \A k \in 2..Len(f) : f[k] # HEADER_INPUT

\* A sentinel value among the bytes after the header.
InnerSentinel(f) == \E k \in 2..Len(f) : f[k] = HEADER_INPUT

\* C25: every frame the relay has emitted, and every frame it has handed to
\* a client, is non-empty, begins with 0xF0 and holds no other 0xF0; hence
\* no device frame with 0xF0 in its length, payload or checksum is among
\* them.
C25_FramesHoldOneSentinel ==
  /\ \A i \in 1..Len(emitted) : OneSentinel(emitted[i])
  /\ \A c \in Clients : \A i \in 1..Len(inbox[c]) : OneSentinel(inbox[c][i])
  /\ \A i \in 1..Len(sent) :
       InnerSentinel(sent[i]) =>
         \A j \in 1..Len(emitted) : emitted[j] # sent[i]

\* The device wrote a frame whose checksum byte is 0xF0 and the client was
\* handed its first five bytes as a frame, and the lone checksum byte as the
\* next.
C25_Witness ==
  /\ \E i \in 1..Len(sent) : InnerSentinel(sent[i])
  /\ Len(inbox[1]) = 2
  /\ inbox[1][1] = <<240, 161, 221, 1, 18>>
  /\ inbox[1][2] = <<240>>

\* C26: between two passes of the read loop the retained buffer is empty,
\* or starts with 0xF0 and holds no other 0xF0.
C26_BufferInvariant == buffer = <<>> \/ OneSentinel(buffer)

\* Bytes ahead of the first sentinel were received, a frame has been emitted
\* and the bytes after the last sentinel are retained.
C26_Witness ==
  /\ received # <<>>
  /\ received[1] # HEADER_INPUT
  /\ emitted # <<>>
  /\ Len(buffer) >= 2

\* C27: the frames emitted so far, laid end to end and followed by the
\* retained buffer, are the received stream from its first 0xF0 on (nothing
\* when no 0xF0 was received).
C27_ByteConservation ==
  Flatten(emitted) \o buffer = FromFirstSentinel(received)

\* A stream that arrived in several chunks, with bytes ahead of its first
\* sentinel, two frames emitted and a sentinel retained.
C27_Witness ==
  /\ chunked
  /\ received[1] # HEADER_INPUT
  /\ Len(emitted) = 2
  /\ buffer # <<>>
  /\ Len(Flatten(emitted)) + Len(buffer) < Len(received)

\* The position of the last sentinel received (0: none).
LastSentinel(s) ==
  LET hits == {i \in 1..Len(s) : s[i] = HEADER_INPUT}
  IN  IF hits = {} THEN 0 ELSE CHOOSE i \in hits : \A j \in hits : j <= i

SentinelCount(s) == Cardinality({i \in 1..Len(s) : s[i] = HEADER_INPUT})

\* C28: the bytes from the most recent sentinel on are held in the buffer
\* and are in no emitted frame: one frame has been emitted for every
\* sentinel but the last, whether the link is still open or has closed.
C28_LastFrameHeld ==
  LET last == LastSentinel(received) IN
  IF last = 0
  THEN emitted = <<>>
  ELSE /\ buffer = SubSeq(received, last, Len(received))
       /\ Len(emitted) = SentinelCount(received) - 1

\* The link has closed with everything read: the bytes of the last frame
\* are still in the buffer and were never emitted.
C28_Witness ==
  /\ serialPort = "null"
  /\ wire = <<>>
  /\ Len(emitted) = 1
  /\ Len(buffer) >= 3

\* C29: on one protocol instance isProcessing is true exactly while a drain
\* is active (suspended in its timeout, started by one call), and with no
\* drain active the command queue is empty.
C29_WorkerInvariant ==
  /\ isProcessing[1] <=> timer[1] # -1
  /\ isProcessing[1] <=> drainOwner[1] # 0
  /\ ~isProcessing[1] => commandQueue[1] = <<>>

\* A first drain has ended; a second one is active with a command waiting
\* behind the one it has sent.
C29_Witness ==
  /\ Len(calls) = 3
  /\ calls[1].status = "resolved"
  /\ calls[2].starter
  /\ isProcessing[1]
  /\ commandQueue[1] # <<>>

\* Call id's command has left the queue: it was passed to ws.send, or
\* dropped by send() because the socket was not OPEN.
Dequeued(id) == id \in Transmitted(1) \/ id \in skipped

\* No command leaves the queue twice.
DequeuedOnce ==
  /\ \A i, j \in 1..Len(txLog[1]) : txLog[1][i].id = txLog[1][j].id => i = j
  /\ Transmitted(1) \cap skipped = {}

WorkerIdle == ~isProcessing[1] /\ commandQueue[1] = <<>> /\ timer[1] = -1

\* C30: with timers that fire, every command passed to queueCommand
\* eventually leaves the queue, transmitted or dropped, and never twice;
\* and once the calls have stopped, the queue ends up empty and the worker
\* idle for good.
C30_SequencerLiveness ==
  /\ []DequeuedOnce
  /\ \A id \in 1..MaxCmds : (Len(calls) >= id) ~> Dequeued(id)
  /\ <>[]WorkerIdle

\* All the calls were made and every command has left the queue, one of
\* them dropped on a closed socket; the worker is idle.
C30_Witness ==
  /\ Len(calls) = MaxCmds
  /\ \A id \in 1..MaxCmds : Dequeued(id)
  /\ skipped # {}
  /\ Transmitted(1) # {}
  /\ WorkerIdle

\* C32: once the read loop has ended, serialPort is null and stays null, no
\* step emits a frame or hands one to a client, and no step writes a client's
\* message to the port; a client that has not connected yet can still be
\* upgraded and open its socket.
C32_LinkLossPermanent ==
  /\ [][serialPort = "null" =>
          /\ serialPort' = "null"
          /\ emitted' = emitted
          /\ inbox' = inbox
          /\ serialLog' = serialLog]_vars
  /\ [](serialPort = "null" =>
          \A c \in Clients :
            /\ readyState[c] = "NONE" => ENABLED Upgrade(c)
            /\ readyState[c] = "CONNECTING" => ENABLED SocketOpen(c))

\* The loop ended with a frame of the device still unread; before that one
\* frame was broadcast and one client message written.  Both clients are
\* connected, the second client's message was received by the relay and
\* not written.
C32_Witness ==
  /\ serialPort = "null"
  /\ Len(emitted) = 1
  /\ wire # <<>>
  /\ \A c \in Clients : readyState[c] = "OPEN" /\ wsReadyState[c] = "OPEN"
  /\ inbox[1] = emitted /\ inbox[2] = <<>>
  /\ Len(calls) = 2
  /\ \A c \in Clients : uplink[c] = <<>>
  /\ converting = {}
  /\ Len(serialLog) = 1

\* C31: on every connection of the page, the first frame passed to the
\* socket's send is the session-enable frame F1 C1 00 01 01 02, whatever the
\* user, the interval, the earlier connection's listener and the drains do.
C31_EnableFirst ==
  \A k \in Clients :
    txLog[k] # <<>> =>
      /\ txLog[k][1].frame = <<241, 193, 0, 1, 1, 2>>
      /\ txLog[k][1].frame = initSession

\* The page is on its second connection while the 'open' listener of the
\* first has not finished; on the second socket the enable frame was
\* followed by a SET frame of the user.
C31_Witness ==
  /\ page.socket = 2
  /\ page.opener[1].pc \in 1..(Len(OpenerScript) - 1)
  /\ txLog[1] # <<>>
  /\ Len(txLog[2]) >= 2
  /\ \E i \in 2..Len(txLog[2]) : txLog[2][i].frame[2] = CMD_SET

====
